---- MODULE Spec2Model ----
(***************************************************************************)
(* Model of the pic2pic-nextgen desktop backend bridge                     *)
(* (src/desktop/src-tauri/src/main.rs): the startup sequence of main(),    *)
(* the four commands get_system_info, read_local_file, write_local_file    *)
(* and list_directory, and the file-system calls they delegate to          *)
(* (std::fs::read, std::fs::write, std::fs::read_dir), modelled at the     *)
(* level of the system calls those library functions issue.                *)
(*                                                                         *)
(* A file name is a sequence of bytes (an OsString); a path is a sequence  *)
(* of names; file contents are sequences of bytes.                         *)
(***************************************************************************)
EXTENDS Integers, Sequences, FiniteSets, TLC

\* ---------------------------------------------------------------- bounds
\* Longest byte sequence a caller passes to write_local_file.
MaxLen == 2
\* Number of data bytes the volume can hold.
DiskSize == 3
\* Largest number of bytes one read(2) call of read_to_end returns.
ReadBuf == 1

\* ---------------------------------------------------------------- values
ByteVals == {1, 2}

RECURSIVE SeqsUpTo(_, _)
SeqsUpTo(S, n) ==
    IF n = 0 THEN {<<>>}
    ELSE LET shorter == SeqsUpTo(S, n - 1)
         IN  shorter \cup {Append(s, x) : s \in shorter, x \in S}

\* The byte sequences callers write.
Contents == SeqsUpTo(ByteVals, MaxLen)

Min(a, b) == IF a <= b THEN a ELSE b
Max(a, b) == IF a >= b THEN a ELSE b

\* File names, as the bytes of the OsString.
NameTmp  == <<116, 109, 112>>      \* "tmp"
NameA    == <<97>>                 \* "a"
NameE    == <<195, 169>>           \* "e" with acute accent, two-byte UTF-8
NameLock == <<108>>                \* "l", a read-only file
NameRo   == <<114, 111>>           \* "ro", a directory without read or write permission
NameNo   == <<110, 111>>           \* "no", never exists
NameBad  == <<102, 255>>           \* not valid UTF-8
NameDot    == <<46>>
NameDotDot == <<46, 46>>

PathRoot == <<>>
PathTmp  == <<NameTmp>>
PathA    == <<NameTmp, NameA>>
PathE    == <<NameTmp, NameE>>
PathLock == <<NameLock>>
PathBad  == <<NameTmp, NameBad>>
PathRo   == <<NameRo>>

\* The paths callers pass to the commands.  The argument is a Rust String,
\* so every name in it is valid UTF-8.
CallPaths ==
    { PathA, PathE, PathTmp, PathLock, PathRo,
      <<NameRo, NameA>>,             \* parent directory is not writable
      <<NameNo, NameA>>,             \* parent directory is missing
      <<NameTmp, NameA, NameA>> }    \* parent is a regular file, or missing

\* The paths a write can create or replace in the volume considered, and the
\* arguments callers pass to write_local_file: every byte sequence for those
\* paths, two of them for the paths where the open fails.
FilePaths == {PathA, PathE}
WriteArgs ==
    (FilePaths \X Contents) \cup ((CallPaths \ FilePaths) \X {<<>>, <<1, 2>>})

\* ------------------------------------------------------ file-system state
FileNode(d, r, w) == [kind |-> "file", data |-> d, r |-> r, w |-> w]
DirNode(r, w)     == [kind |-> "dir",  data |-> <<>>, r |-> r, w |-> w]

Parent(p) == SubSeq(p, 1, Len(p) - 1)
Base(p)   == p[Len(p)]

Exists(f, p) == p \in DOMAIN f
IsDir(f, p)  == Exists(f, p) /\ f[p].kind = "dir"
IsFile(f, p) == Exists(f, p) /\ f[p].kind = "file"

\* The entries of directory d.
Children(f, d) == {p \in DOMAIN f : Len(p) = Len(d) + 1 /\ Parent(p) = d}

RECURSIVE SumLen(_, _)
SumLen(f, ps) ==
    IF ps = {} THEN 0
    ELSE LET p == CHOOSE q \in ps : TRUE
         IN  Len(f[p].data) + SumLen(f, ps \ {p})

Used(f) == SumLen(f, DOMAIN f)
Free(f) == DiskSize - Used(f)

\* The volume before the process starts: /l is a read-only file, /tmp holds
\* an entry whose name is not valid UTF-8, /ro can be neither read nor written.
BaseFs ==
    [p \in {PathRoot, PathTmp, PathRo, PathLock, PathBad} |->
        IF p = PathLock THEN FileNode(<<2>>, TRUE, FALSE)
        ELSE IF p = PathBad THEN FileNode(<<>>, TRUE, TRUE)
        ELSE IF p = PathRo THEN DirNode(FALSE, FALSE)
        ELSE DirNode(TRUE, TRUE)]

\* ------------------------------------------------------------ system calls
\* Path walk of the proper prefixes of p: "" when every one is a directory,
\* else the errno of the first that is not.
RECURSIVE Walk(_, _, _)
Walk(f, p, i) ==
    IF i >= Len(p) THEN ""
    ELSE LET q == SubSeq(p, 1, i)
         IN  IF ~Exists(f, q) THEN "ENOENT"
             ELSE IF f[q].kind # "dir" THEN "ENOTDIR"
             ELSE Walk(f, p, i + 1)

\* open(p, O_RDONLY): the errno, or "" on success.
SysOpenRead(f, p) ==
    LET w == Walk(f, p, 1)
    IN  IF w # "" THEN w
        ELSE IF ~Exists(f, p) THEN "ENOENT"
        ELSE IF ~f[p].r THEN "EACCES"
        ELSE ""

\* read(fd, buf, n) at offset off: the bytes returned (<<>> at end of file).
SysRead(f, p, off, n) ==
    [err |-> IF f[p].kind = "dir" THEN "EISDIR" ELSE "",
     bytes |-> IF f[p].kind = "dir" THEN <<>>
               ELSE SubSeq(f[p].data, off + 1, Min(off + n, Len(f[p].data)))]

\* Variant of SysOpenCreate without O_TRUNC: an existing file keeps its bytes.
SysOpenCreate_NoTrunc(f, p) ==
    LET w == Walk(f, p, 1)
    IN  IF w # "" THEN [err |-> w, fs |-> f]
        ELSE IF Exists(f, p) THEN
            IF f[p].kind = "dir" THEN [err |-> "EISDIR", fs |-> f]
            ELSE IF ~f[p].w THEN [err |-> "EACCES", fs |-> f]
            ELSE [err |-> "", fs |-> f]
        ELSE IF ~f[Parent(p)].w THEN [err |-> "EACCES", fs |-> f]
        ELSE [err |-> "",
              fs |-> [q \in DOMAIN f \cup {p} |->
                         IF q = p THEN FileNode(<<>>, TRUE, TRUE) ELSE f[q]]]

\* open(p, O_WRONLY|O_CREAT|O_TRUNC, 0666): the errno ("" on success) and the
\* file system after the call.
SysOpenCreate(f, p) ==
    LET w == Walk(f, p, 1)
    IN  IF w # "" THEN [err |-> w, fs |-> f]
        ELSE IF Exists(f, p) THEN
            IF f[p].kind = "dir" THEN [err |-> "EISDIR", fs |-> f]
            ELSE IF ~f[p].w THEN [err |-> "EACCES", fs |-> f]
            ELSE [err |-> "", fs |-> [f EXCEPT ![p].data = <<>>]]
        ELSE IF ~f[Parent(p)].w THEN [err |-> "EACCES", fs |-> f]
        ELSE [err |-> "",
              fs |-> [q \in DOMAIN f \cup {p} |->
                         IF q = p THEN FileNode(<<>>, TRUE, TRUE) ELSE f[q]]]

\* Bytes a write(2) of buf at offset off can store before the volume is full.
Room(f, p, off, buf) ==
    Min(Len(buf), Max(0, Len(f[p].data) - off) + Free(f))

\* write(fd, buf) storing the first n bytes of buf at offset off.
SysWrite(f, p, off, buf, n) ==
    LET old == f[p].data
        new == SubSeq(old, 1, off) \o SubSeq(buf, 1, n)
               \o SubSeq(old, off + n + 1, Len(old))
    IN  [f EXCEPT ![p].data = new]

\* opendir(p): the errno, or "" on success.
SysOpenDir(f, p) ==
    LET w == Walk(f, p, 1)
    IN  IF w # "" THEN w
        ELSE IF ~Exists(f, p) THEN "ENOENT"
        ELSE IF f[p].kind # "dir" THEN "ENOTDIR"
        ELSE IF ~f[p].r THEN "EACCES"
        ELSE ""

\* ------------------------------------------------------------ std library
\* io::Error::to_string() of an OS error: the platform message and its code.
ErrToString(e) ==
    CASE e = "ENOENT"  -> "No such file or directory (os error 2)"
      [] e = "EACCES"  -> "Permission denied (os error 13)"
      [] e = "ENOTDIR" -> "Not a directory (os error 20)"
      [] e = "EISDIR"  -> "Is a directory (os error 21)"
      [] e = "ENOSPC"  -> "No space left on device (os error 28)"

Errnos == {"ENOENT", "EACCES", "ENOTDIR", "EISDIR", "ENOSPC"}

Success(v) == [tag |-> "Success", payload |-> v]
Failure(m) == [tag |-> "Failure", payload |-> m]

\* Read::read_to_end: read until a read returns no bytes.
RECURSIVE ReadToEnd(_, _, _, _)
ReadToEnd(f, p, off, acc) ==
    LET r == SysRead(f, p, off, ReadBuf)
    IN  IF r.err # "" THEN [err |-> r.err, bytes |-> <<>>]
        ELSE IF r.bytes = <<>> THEN [err |-> "", bytes |-> acc]
        ELSE ReadToEnd(f, p, off + Len(r.bytes), acc \o r.bytes)

\* std::fs::read: File::open, then read_to_end.
FsRead(f, p) ==
    LET e == SysOpenRead(f, p)
    IN  IF e # "" THEN [err |-> e, bytes |-> <<>>]
        ELSE ReadToEnd(f, p, 0, <<>>)

\* Write::write_all: write until the buffer is empty or a write fails.
RECURSIVE WriteAll(_, _, _, _)
WriteAll(f, p, off, buf) ==
    IF buf = <<>> THEN [err |-> "", fs |-> f]
    ELSE LET n == Room(f, p, off, buf)
         IN  IF n = 0 THEN [err |-> "ENOSPC", fs |-> f]
             ELSE WriteAll(SysWrite(f, p, off, buf, n), p, off + n,
                           SubSeq(buf, n + 1, Len(buf)))

\* Variant of FsWrite that opens for append: the bytes go after those present.
FsWrite_Append(f, p, b) ==
    LET o == SysOpenCreate(f, p)
    IN  IF o.err # "" THEN o
        ELSE LET g == IF Exists(f, p) THEN f ELSE o.fs
             IN  WriteAll(g, p, Len(g[p].data), b)

\* Variant of FsWrite that first creates a missing parent directory.
FsWrite_MkParents(f, p, b) ==
    LET d == Parent(p)
        g == IF Len(p) >= 1 /\ ~Exists(f, d) /\ Walk(f, d, 1) = ""
             THEN [q \in DOMAIN f \cup {d} |->
                      IF q = d THEN DirNode(TRUE, TRUE) ELSE f[q]]
             ELSE f
        o == SysOpenCreate(g, p)
    IN  IF o.err # "" THEN o ELSE WriteAll(o.fs, p, 0, b)

\* std::fs::write: File::create (create or truncate), then write_all.
FsWrite(f, p, b) ==
    LET o == SysOpenCreate(f, p)
    IN  IF o.err # "" THEN o ELSE WriteAll(o.fs, p, 0, b)

\* OsStr::to_str: the name when its bytes are valid UTF-8.
Cont(b) == 128 <= b /\ b <= 191

RECURSIVE ValidUtf8(_)
ValidUtf8(s) ==
    IF s = <<>> THEN TRUE
    ELSE LET b == s[1]
             n == Len(s)
         IN  IF b < 128 THEN ValidUtf8(Tail(s))
             ELSE IF 194 <= b /\ b <= 223 THEN
                 n >= 2 /\ Cont(s[2]) /\ ValidUtf8(SubSeq(s, 3, n))
             ELSE IF 224 <= b /\ b <= 239 THEN
                 /\ n >= 3
                 /\ Cont(s[2]) /\ Cont(s[3])
                 /\ (b = 224 => s[2] >= 160)
                 /\ (b = 237 => s[2] <= 159)
                 /\ ValidUtf8(SubSeq(s, 4, n))
             ELSE IF 240 <= b /\ b <= 244 THEN
                 /\ n >= 4
                 /\ Cont(s[2]) /\ Cont(s[3]) /\ Cont(s[4])
                 /\ (b = 240 => s[2] >= 144)
                 /\ (b = 244 => s[2] <= 143)
                 /\ ValidUtf8(SubSeq(s, 5, n))
             ELSE FALSE

\* to_str as an option: {name} for Some(name), {} for None.
ToStr(name) == IF ValidUtf8(name) THEN {name} ELSE {}

\* The orders in which the directory stream can yield a set of names.
Orders(S) ==
    {s \in [1..Cardinality(S) -> S] : \A i, j \in 1..Cardinality(S) :
                                          s[i] = s[j] => i = j}

\* std::fs::read_dir's iterator: the entries of d in some order; the "." and
\* ".." the OS stream yields are skipped by the iterator.  Each item is Ok.
DirStreams(f, d) ==
    LET raw(o) == <<NameDot, NameDotDot>> \o o
        keep(n) == n # NameDot /\ n # NameDotDot
        item(n) == [ok |-> TRUE, name |-> n]
    IN  { [i \in DOMAIN s |-> item(s[i])]
          : s \in { SelectSeq(raw(o), keep)
                    : o \in Orders({Base(c) : c \in Children(f, d)}) } }

\* ------------------------------------------------------------ the commands
\* std::env::consts::ARCH of the builds considered; the OS is Linux, whose
\* error numbers and messages the system-call layer uses.
TargetOS     == "linux"
TargetArches == {"x86_64", "aarch64"}

\* Variant of get_system_info that leaves the architecture out.
get_system_info_NoArch(a) ==
    Success([platform |-> TargetOS, arch |-> "", app_version |-> "2.0.0"])

\* get_system_info: the JSON object of the three fields.
get_system_info(a) ==
    Success([platform |-> TargetOS, arch |-> a, app_version |-> "2.0.0"])

\* Variant of read_local_file that answers a failed read with no bytes.
read_local_file_OrEmpty(f, path) == Success(FsRead(f, path).bytes)

\* read_local_file: std::fs::read(&path).map_err(|e| e.to_string())
read_local_file(f, path) ==
    LET r == FsRead(f, path)
    IN  IF r.err = "" THEN Success(r.bytes) ELSE Failure(ErrToString(r.err))

\* write_local_file: std::fs::write(&path, &contents).map_err(...); the
\* result and the file system the call leaves.
write_local_file(f, path, contents) ==
    LET w == FsWrite(f, path, contents)
    IN  [ret |-> IF w.err = "" THEN Success(<<>>)
                 ELSE Failure(ErrToString(w.err)),
         fs  |-> w.fs]

\* Variant of ListLoop that stops at the first entry it cannot decode.
RECURSIVE ListLoop_StopAtBad(_, _)
ListLoop_StopAtBad(entries, files) ==
    IF entries = <<>> THEN files
    ELSE LET entry == Head(entries)
         IN  IF entry.ok /\ ToStr(entry.name) # {}
             THEN ListLoop_StopAtBad(Tail(entries),
                           Append(files, CHOOSE n \in ToStr(entry.name) : TRUE))
             ELSE files

\* The loop of list_directory over the entries of the stream.
RECURSIVE ListLoop(_, _)
ListLoop(entries, files) ==
    IF entries = <<>> THEN files
    ELSE LET entry == Head(entries)
         IN  IF entry.ok /\ ToStr(entry.name) # {}
             THEN ListLoop(Tail(entries),
                           Append(files, CHOOSE n \in ToStr(entry.name) : TRUE))
             ELSE ListLoop(Tail(entries), files)

\* list_directory over the stream read_dir yields.
list_directory(f, path, entries) ==
    LET e == SysOpenDir(f, path)
    IN  IF e # "" THEN Failure(ErrToString(e))
        ELSE Success(ListLoop(entries, <<>>))

\* Variant of GeneratedHandler listing write_local_file twice and
\* list_directory not at all.
GeneratedHandler_Dup ==
    <<"get_system_info", "read_local_file", "write_local_file", "write_local_file">>

\* tauri::generate_handler!: the command names, in the order listed.
GeneratedHandler ==
    <<"get_system_info", "read_local_file", "write_local_file", "list_directory">>

\* Names a front end may invoke that main() never lists.
OtherCommands == {"delete_local_file", "read_file"}

WindowTitle == "pic2pic-nextgen v2.0.0"

Range(s) == {s[i] : i \in DOMAIN s}

\* ------------------------------------------------------------------ state
VARIABLES
    pc,        \* position of main(): "builder", "plugin_fs", "plugin_dialog",
               \* "handler", "setup", "built", "window", "running", "aborted"
    plugins,   \* plugins attached to the builder, in order
    handlers,  \* the dispatch table: command names of the invoke handler
    hook,      \* whether the setup closure is installed
    windows,   \* the webview windows of the application: label -> title
    titleErr,  \* whether the platform refuses set_title
    arch,      \* std::env::consts::ARCH of this build
    fs,        \* the file system: path -> node
    call,      \* the invocation served last
    ret,       \* its result
    lastOk,    \* history: path -> {B} when the last successful write wrote B
    pair,      \* history: progress of a repeated write/read pair
    wr,        \* an overlapping write_local_file task: its position, its
               \* arguments, the file offset, and what the file held before
    rd         \* an overlapping read_local_file task: its position, its
               \* argument, the file offset and the bytes read so far

vars == <<pc, plugins, handlers, hook, windows, titleErr, arch, fs, call, ret,
          lastOk, pair, wr, rd>>

startup == <<pc, plugins, handlers, hook, windows, titleErr, arch>>
tasks   == <<wr, rd>>

NoCall  == [op |-> "none", path |-> <<>>, data |-> <<>>]
NoRet   == [tag |-> "none", payload |-> <<>>]
NoPair  == [n |-> 0, path |-> <<>>, data |-> <<>>, fs1 |-> <<>>]
IdleWr  == [pc |-> "idle", path |-> <<>>, buf |-> <<>>, off |-> 0, old |-> <<>>,
            ret |-> NoRet]
IdleRd  == [pc |-> "idle", path |-> <<>>, acc |-> <<>>, off |-> 0, ret |-> NoRet]

\* Window labels the application configuration may declare.
WindowConfigs == {{"main"}, {"splash"}, {}}

Init ==
    /\ pc = "builder"
    /\ plugins = <<>>
    /\ handlers = <<>>
    /\ hook = FALSE
    /\ \E labels \in WindowConfigs : windows = [l \in labels |-> ""]
    /\ titleErr \in BOOLEAN
    /\ arch \in TargetArches
    /\ fs = BaseFs
    /\ call = NoCall
    /\ ret = NoRet
    /\ lastOk = [p \in CallPaths |-> {}]
    /\ pair = NoPair
    /\ wr = IdleWr
    /\ rd = IdleRd

\* ----------------------------------------------------------------- main()
served == <<fs, call, ret, lastOk, pair, wr, rd>>

\* .plugin(tauri_plugin_fs::init())
PluginFs ==
    /\ pc = "builder"
    /\ plugins' = Append(plugins, "fs")
    /\ pc' = "plugin_fs"
    /\ UNCHANGED <<handlers, hook, windows, titleErr, arch, served>>

\* .plugin(tauri_plugin_dialog::init())
PluginDialog ==
    /\ pc = "plugin_fs"
    /\ plugins' = Append(plugins, "dialog")
    /\ pc' = "plugin_dialog"
    /\ UNCHANGED <<handlers, hook, windows, titleErr, arch, served>>

\* .invoke_handler(tauri::generate_handler![...])
InvokeHandler ==
    /\ pc = "plugin_dialog"
    /\ handlers' = GeneratedHandler
    /\ pc' = "handler"
    /\ UNCHANGED <<plugins, hook, windows, titleErr, arch, served>>

\* .setup(|app| ...): the closure is stored, not run.
Setup ==
    /\ pc = "handler"
    /\ hook' = TRUE
    /\ pc' = "setup"
    /\ UNCHANGED <<plugins, handlers, windows, titleErr, arch, served>>

\* .run(...): the application is built and the setup closure starts.
Run ==
    /\ pc = "setup"
    /\ pc' = "built"
    /\ UNCHANGED <<plugins, handlers, hook, windows, titleErr, arch, served>>

\* app.get_webview_window("main").unwrap()
GetWindow ==
    /\ pc = "built"
    /\ hook
    /\ pc' = IF "main" \in DOMAIN windows THEN "window" ELSE "aborted"
    /\ UNCHANGED <<plugins, handlers, hook, windows, titleErr, arch, served>>

\* Variant of SetTitle that ignores the result of set_title.
SetTitle_IgnoreErr ==
    /\ pc = "window"
    /\ pc' = "titled"
    /\ windows' = IF titleErr THEN windows
                  ELSE [windows EXCEPT !["main"] = WindowTitle]
    /\ UNCHANGED <<plugins, handlers, hook, titleErr, arch, served>>

\* window.set_title("pic2pic-nextgen v2.0.0").unwrap()
SetTitle ==
    /\ pc = "window"
    /\ IF titleErr
       THEN pc' = "aborted" /\ UNCHANGED windows
       ELSE /\ pc' = "titled"
            /\ windows' = [windows EXCEPT !["main"] = WindowTitle]
    /\ UNCHANGED <<plugins, handlers, hook, titleErr, arch, served>>

\* The setup closure returned Ok(()): the event loop starts.
EventLoop ==
    /\ pc = "titled"
    /\ pc' = "running"
    /\ UNCHANGED <<plugins, handlers, hook, windows, titleErr, arch, served>>

\* ------------------------------------------------------------ invocations
\* The invoke handler serves a command when its name is in the table.
Registered(cmd) == \E i \in DOMAIN handlers : handlers[i] = cmd

Call(op, path, data) == [op |-> op, path |-> path, data |-> data]

\* History of a write/read pair on one path that is run twice in a row:
\* n counts the invocations of the two pairs seen so far.
NextPair(old, c, r, f) ==
    IF old.n = 1 /\ c.op = "read_local_file" /\ c.path = old.path
                 /\ r.tag = "Success"
    THEN [old EXCEPT !.n = 2, !.fs1 = f]
    ELSE IF old.n = 2 /\ c.op = "write_local_file" /\ c.path = old.path
                      /\ c.data = old.data
    THEN [old EXCEPT !.n = 3]
    ELSE IF old.n = 3 /\ c.op = "read_local_file" /\ c.path = old.path
    THEN [old EXCEPT !.n = 4]
    ELSE IF c.op = "write_local_file" /\ r.tag = "Success"
    THEN [n |-> 1, path |-> c.path, data |-> c.data, fs1 |-> <<>>]
    ELSE NoPair

GetSystemInfo ==
    /\ pc = "running"
    /\ Registered("get_system_info")
    /\ call' = Call("get_system_info", <<>>, <<>>)
    /\ ret' = get_system_info(arch)
    /\ pair' = NextPair(pair, call', ret', fs)
    /\ UNCHANGED <<fs, lastOk, startup, tasks>>

ReadLocalFile ==
    /\ pc = "running"
    /\ Registered("read_local_file")
    /\ \E path \in CallPaths :
         /\ call' = Call("read_local_file", path, <<>>)
         /\ ret' = read_local_file(fs, path)
         /\ pair' = NextPair(pair, call', ret', fs)
    /\ UNCHANGED <<fs, lastOk, startup, tasks>>

WriteLocalFile ==
    /\ pc = "running"
    /\ Registered("write_local_file")
    /\ \E args \in WriteArgs :
         \E w \in {write_local_file(fs, args[1], args[2])} :
           /\ call' = Call("write_local_file", args[1], args[2])
           /\ ret' = w.ret
           /\ fs' = w.fs
           /\ lastOk' = IF w.ret.tag = "Success"
                        THEN [lastOk EXCEPT ![args[1]] = {args[2]}]
                        ELSE lastOk
           /\ pair' = NextPair(pair, call', ret', fs')
    /\ UNCHANGED <<startup, tasks>>

ListDirectory ==
    /\ pc = "running"
    /\ Registered("list_directory")
    /\ \E path \in CallPaths :
         \E entries \in (IF SysOpenDir(fs, path) = ""
                         THEN DirStreams(fs, path) ELSE {<<>>}) :
           /\ call' = Call("list_directory", path, <<>>)
           /\ ret' = list_directory(fs, path, entries)
           /\ pair' = NextPair(pair, call', ret', fs)
    /\ UNCHANGED <<fs, lastOk, startup, tasks>>

\* A name the generated handler does not match: the invoke is rejected.
InvokeUnknown ==
    /\ pc = "running"
    /\ \E cmd \in OtherCommands :
         /\ ~Registered(cmd)
         /\ call' = Call(cmd, <<>>, <<>>)
         /\ ret' = Failure("Command " \o cmd \o " not found")
         /\ pair' = NextPair(pair, call', ret', fs)
    /\ UNCHANGED <<fs, lastOk, startup, tasks>>

Next ==
    \/ PluginFs
    \/ PluginDialog
    \/ InvokeHandler
    \/ Setup
    \/ Run
    \/ GetWindow
    \/ SetTitle
    \/ EventLoop
    \/ GetSystemInfo
    \/ ReadLocalFile
    \/ WriteLocalFile
    \/ ListDirectory
    \/ InvokeUnknown

Spec == Init /\ [][Next]_vars

\* ------------------------------------------------- overlapping invocations
\* Async commands run as independent tasks: a write_local_file and a
\* read_local_file of the same file interleave at the system calls that
\* std::fs::write and std::fs::read issue.  Each system call is one step.

\* A running application whose volume holds A in /tmp/a, as earlier writes
\* left it, with both invocations issued.
InitConc ==
    /\ pc = "running"
    /\ plugins = <<"fs", "dialog">>
    /\ handlers = GeneratedHandler
    /\ hook = TRUE
    /\ windows = [l \in {"main"} |-> WindowTitle]
    /\ titleErr = FALSE
    /\ arch \in TargetArches
    /\ \E A \in Contents, B \in Contents,
          E \in {{}} \cup {{c} : c \in Contents} :
         \E f1 \in {write_local_file(BaseFs, PathA, A)} :
           \E f2 \in {IF E = {} THEN f1
                      ELSE write_local_file(f1.fs, PathE,
                                            CHOOSE c \in E : TRUE)} :
             /\ f1.ret.tag = "Success"
             /\ f2.ret.tag = "Success"
             /\ fs = f2.fs
             /\ wr = [pc |-> "open", path |-> PathA, buf |-> B, off |-> 0,
                      old |-> A, ret |-> NoRet]
             /\ rd = [pc |-> "open", path |-> PathA, acc |-> <<>>, off |-> 0,
                      ret |-> NoRet]
    /\ call = NoCall
    /\ ret = NoRet
    /\ lastOk = [p \in CallPaths |-> {}]
    /\ pair = NoPair

\* File::create of std::fs::write.
WrOpen ==
    /\ wr.pc = "open"
    /\ \E o \in {SysOpenCreate(fs, wr.path)} :
         IF o.err # ""
         THEN /\ wr' = [wr EXCEPT !.pc = "done",
                                  !.ret = Failure(ErrToString(o.err))]
              /\ UNCHANGED fs
         ELSE /\ fs' = o.fs
              /\ wr' = IF wr.buf = <<>>
                       THEN [wr EXCEPT !.pc = "done", !.ret = Success(<<>>)]
                       ELSE [wr EXCEPT !.pc = "write"]
    /\ UNCHANGED <<rd, call, ret, lastOk, pair, startup>>

\* One write(2) of write_all: it stores some or all of the rest of the buffer,
\* or fails when the volume is full.
WrWrite ==
    /\ wr.pc = "write"
    /\ LET rest == SubSeq(wr.buf, wr.off + 1, Len(wr.buf))
           room == Room(fs, wr.path, wr.off, rest)
       IN  IF room = 0
           THEN /\ wr' = [wr EXCEPT !.pc = "done",
                                    !.ret = Failure(ErrToString("ENOSPC"))]
                /\ UNCHANGED fs
           ELSE \E n \in 1..room :
                  /\ fs' = SysWrite(fs, wr.path, wr.off, rest, n)
                  /\ wr' = IF n = Len(rest)
                           THEN [wr EXCEPT !.pc = "done", !.off = wr.off + n,
                                           !.ret = Success(<<>>)]
                           ELSE [wr EXCEPT !.off = wr.off + n]
    /\ UNCHANGED <<rd, call, ret, lastOk, pair, startup>>

\* File::open of std::fs::read.
RdOpen ==
    /\ rd.pc = "open"
    /\ \E e \in {SysOpenRead(fs, rd.path)} :
         rd' = IF e # ""
               THEN [rd EXCEPT !.pc = "done", !.ret = Failure(ErrToString(e))]
               ELSE [rd EXCEPT !.pc = "read"]
    /\ UNCHANGED <<wr, fs, call, ret, lastOk, pair, startup>>

\* One read(2) of read_to_end: no bytes means end of file.
RdRead ==
    /\ rd.pc = "read"
    /\ \E n \in 1..ReadBuf :
         \E r \in {SysRead(fs, rd.path, rd.off, n)} :
           rd' = IF r.err # ""
                 THEN [rd EXCEPT !.pc = "done",
                                 !.ret = Failure(ErrToString(r.err))]
                 ELSE IF r.bytes = <<>>
                 THEN [rd EXCEPT !.pc = "done", !.ret = Success(rd.acc)]
                 ELSE [rd EXCEPT !.acc = rd.acc \o r.bytes,
                                 !.off = rd.off + Len(r.bytes)]
    /\ UNCHANGED <<wr, fs, call, ret, lastOk, pair, startup>>

NextConc ==
    \/ WrOpen
    \/ WrWrite
    \/ RdOpen
    \/ RdRead

SpecConc == InitConc /\ [][NextConc]_vars

\* ------------------------------------------------------------------ claims
CommandNames ==
    {"get_system_info", "read_local_file", "write_local_file", "list_directory"}

\* C1: read_local_file(P) returns Success(B), exactly the bytes B of the most
\* recent successful write_local_file(P, B), whatever invocations came between.
C1_ReadReturnsLastSuccessfulWrite ==
    (call.op = "read_local_file" /\ lastOk[call.path] # {})
        => (ret.tag = "Success" /\ {ret.payload} = lastOk[call.path])

\* The platform messages for a path that does not name what is asked for.
NotFoundMessages ==
    {"No such file or directory (os error 2)", "Not a directory (os error 20)"}

\* C2: read_local_file of a path that does not exist, and list_directory of a
\* path that does not exist or is not a directory, return Failure carrying
\* the platform's message, never Success.
C2_MissingPathFails ==
    /\ (call.op = "read_local_file" /\ ~Exists(fs, call.path))
          => (ret.tag = "Failure" /\ ret.payload \in NotFoundMessages)
    /\ (call.op = "list_directory" /\ ~IsDir(fs, call.path))
          => (ret.tag = "Failure" /\ ret.payload \in NotFoundMessages)

C2_Witness ==
    /\ call.op = "list_directory"
    /\ call.path = PathA
    /\ IsFile(fs, PathA)
    /\ ret = Failure("Not a directory (os error 20)")

\* The names of the entries of d that are valid display text.
TextNames(f, d) == {Base(c) : c \in Children(f, d)} \ {NameBad}

ListsExactly(r, f, d) ==
    /\ r.tag = "Success"
    /\ Range(r.payload) = TextNames(f, d)
    /\ Len(r.payload) = Cardinality(TextNames(f, d))

C4_WriteAllOrNothing ==
    [][(pc = "running" /\ call'.op = "write_local_file")
          => \/ /\ ret'.tag = "Success"
                /\ IsFile(fs', call'.path)
                /\ fs'[call'.path].data = call'.data
             \/ /\ ret'.tag = "Failure"
                /\ fs' = fs]_vars

\* C5: get_system_info succeeds in every state with a non-empty OS and
\* architecture identifier and the version string, and the record is the same
\* at every invocation of a process.
C5_SystemInfo ==
    /\ [](call.op = "get_system_info"
            => /\ ret.tag = "Success"
               /\ DOMAIN ret.payload = {"platform", "arch", "app_version"}
               /\ ret.payload.platform # ""
               /\ ret.payload.arch # ""
               /\ ret.payload.app_version = "2.0.0"
               /\ ret.payload.arch = arch)
    /\ [][arch' = arch]_vars

C5_Witness ==
    /\ call.op = "get_system_info"
    /\ ret.tag = "Success"
    /\ fs # BaseFs

\* C6: when write_local_file(P, B); read_local_file(P) succeeds and the same
\* pair is run again at once, the second write and read succeed, the read
\* returns B, and the file system is as the first pair left it.
C6_PairIdempotent ==
    /\ pair.n = 3 => (ret.tag = "Success" /\ fs = pair.fs1)
    /\ pair.n = 4 => /\ ret.tag = "Success"
                     /\ ret.payload = pair.data
                     /\ fs = pair.fs1

C6_Witness ==
    /\ pair.n = 4
    /\ pair.data # <<>>
    /\ ret = Success(pair.data)

\* C7: the event loop is entered, and commands are served, only after the two
\* plugins and the four commands are registered and the main window is found
\* and titled; a missing main window or a failing set_title aborts the
\* process, which then never serves a command.
C7_StartupFailFast ==
    /\ pc \in {"window", "titled", "running"}
          => /\ Range(plugins) = {"fs", "dialog"}
             /\ Range(handlers) = CommandNames
             /\ "main" \in DOMAIN windows
    /\ pc \in {"titled", "running"} => windows["main"] = WindowTitle
    /\ call # NoCall => pc = "running"
    /\ ("main" \notin DOMAIN windows \/ titleErr) => pc # "running"
    /\ pc = "aborted" => ("main" \notin DOMAIN windows \/ titleErr)

C7_Witness ==
    /\ pc = "aborted"
    /\ titleErr
    /\ "main" \in DOMAIN windows
    /\ call = NoCall

C9_Frame ==
    [][pc = "running"
         => /\ call'.op \in {"get_system_info", "read_local_file",
                             "list_directory"} => fs' = fs
            /\ (call'.op = "write_local_file" /\ ret'.tag = "Success")
                 => /\ DOMAIN fs \subseteq DOMAIN fs'
                    /\ DOMAIN fs' \subseteq DOMAIN fs \cup {call'.path}
                    /\ \A q \in DOMAIN fs : q # call'.path => fs'[q] = fs[q]
                    /\ IsDir(fs, Parent(call'.path))
                    /\ IsFile(fs', call'.path)]_vars

C9_Witness ==
    /\ call.op = "write_local_file"
    /\ call.path = PathA
    /\ ret.tag = "Success"
    /\ IsFile(fs, PathE)
    /\ fs[PathE].data # <<>>
    /\ fs[PathA].data # <<>>

\* s[from+1 .. to], empty when there is no such position.
Slice(s, from, to) ==
    IF from >= Min(to, Len(s)) THEN <<>> ELSE SubSeq(s, from + 1, Min(to, Len(s)))

BothDone == rd.pc = "done" /\ wr.pc = "done"

\* C10 as stated: a read_local_file(P) overlapping a write_local_file(P, B) on
\* a file holding A returns Success(A) or Success(B), and once both have
\* completed P holds exactly B.
C10_ReadSeesOldOrNew ==
    /\ rd.pc = "done"
          => /\ rd.ret.tag = "Success"
             /\ (rd.ret.payload = wr.old \/ rd.ret.payload = wr.buf)
    /\ BothDone => fs[wr.path].data = wr.buf

\* C10 amended: the overlapping read returns Success(S) where S is a prefix of
\* A followed by the bytes of B at the positions after it up to some position
\* of B (so S may be empty or partial); once both have completed P holds
\* exactly B when the write returned Success, and a prefix of B when it
\* returned Failure.
C10_ReadSeesMixOfOldAndNew ==
    /\ rd.pc = "done"
          => /\ rd.ret.tag = "Success"
             /\ \E k \in 0..Len(wr.old), m \in 0..Len(wr.buf) :
                   rd.ret.payload = Slice(wr.old, 0, k) \o Slice(wr.buf, k, m)
    /\ BothDone
          => IF wr.ret.tag = "Success"
             THEN fs[wr.path].data = wr.buf
             ELSE \E m \in 0..Len(wr.buf) :
                     fs[wr.path].data = Slice(wr.buf, 0, m)

C10_Witness ==
    /\ BothDone
    /\ wr.ret.tag = "Success"
    /\ rd.ret.tag = "Success"
    /\ rd.ret.payload # wr.old
    /\ rd.ret.payload # wr.buf
    /\ fs[wr.path].data = wr.buf

====
